---------------------------- MODULE Spec2Model ----------------------------
(***************************************************************************)
(* Model of the CMS BFF file-transfer bridge (backend/main.py): the path   *)
(* sanitizer, the encoding alias table, the encoding resolver of ftp_read  *)
(* and the four FTP handlers with their session lifecycle.                 *)
(*                                                                         *)
(* Python strings and byte strings are sequences of one-character strings. *)
(* The process runs on a POSIX host (api/index.py is a Vercel serverless   *)
(* entry point), so os.path is posixpath: "/" is the only separator.       *)
(***************************************************************************)
EXTENDS Naturals, Sequences, FiniteSets, TLC

VARIABLES
    FTP_BASE,   \* configured root (main.py:29), read-only after start
    req,        \* per request: the handler invoked and its arguments
    pc,         \* per request: position inside the handler
    ftp_path,   \* per request: result of safe_path, None before
    payload,    \* per request: encoded_bytes / content handed to upload_stream
    client,     \* per request: index into sessions of its aioftp.Client, 0 if none
    sessions,   \* every aioftp.Client ever constructed: owner and connection state
    exc,        \* per request: exception propagating through the finally block
    buf,        \* per request: BytesIO filled by the download
    sent,       \* per request: bytes that reached the remote path
    steps,      \* per request: remote-session calls made so far, in order
    result,     \* per request: the HTTP response, None while running
    call        \* a single helper call (safe_path, normalize_encoding, decode part of ftp_read)

vars == <<FTP_BASE, req, pc, ftp_path, payload, client, sessions, exc, buf, sent, steps, result, call>>

\* Python's None where a str or bytes value is expected
None == <<"None">>

-----------------------------------------------------------------------------
(* Bounds of the model *)

\* number of concurrently running requests
NumRequests == 2
\* longest path drawn for the sanitizer
MaxPathLen == 4
\* most letters of an encoding name written in upper case
MaxUpper == 1
\* longest text written / longest body read
MaxTextLen == 2

-----------------------------------------------------------------------------
(* str helpers *)

StartsWith(s, p) == Len(s) >= Len(p) /\ SubSeq(s, 1, Len(p)) = p

Contains(s, sub) ==
    \E i \in 1..(Len(s) + 1) : i + Len(sub) - 1 <= Len(s) /\ SubSeq(s, i, i + Len(sub) - 1) = sub

RECURSIVE lstrip(_, _)
lstrip(s, c) == IF s # <<>> /\ s[1] = c THEN lstrip(Tail(s), c) ELSE s

RECURSIVE rstrip(_, _)
rstrip(s, c) ==
    IF s # <<>> /\ s[Len(s)] = c THEN rstrip(SubSeq(s, 1, Len(s) - 1), c) ELSE s

RECURSIVE SplitFrom(_, _, _, _)
SplitFrom(s, sep, i, cur) ==
    IF i > Len(s) THEN <<cur>>
    ELSE IF s[i] = sep THEN <<cur>> \o SplitFrom(s, sep, i + 1, <<>>)
    ELSE SplitFrom(s, sep, i + 1, Append(cur, s[i]))

\* str.split(sep)
Split(s, sep) == SplitFrom(s, sep, 1, <<>>)

RECURSIVE Join(_, _)
\* sep.join(comps)
Join(comps, sep) ==
    IF comps = <<>> THEN <<>>
    ELSE IF Len(comps) = 1 THEN comps[1]
    ELSE comps[1] \o <<sep>> \o Join(Tail(comps), sep)

\* str.replace(a, b) for single characters
Replace(s, a, b) == [i \in 1..Len(s) |-> IF s[i] = a THEN b ELSE s[i]]

Uppers == <<"A","B","C","D","E","F","G","H","I","J","K","L","M",
            "N","O","P","Q","R","S","T","U","V","W","X","Y","Z">>
Lowers == <<"a","b","c","d","e","f","g","h","i","j","k","l","m",
            "n","o","p","q","r","s","t","u","v","w","x","y","z">>

LowerChar(c) ==
    IF \E i \in 1..Len(Uppers) : Uppers[i] = c
    THEN Lowers[CHOOSE i \in 1..Len(Uppers) : Uppers[i] = c]
    ELSE c

UpperChar(c) ==
    IF \E i \in 1..Len(Lowers) : Lowers[i] = c
    THEN Uppers[CHOOSE i \in 1..Len(Lowers) : Lowers[i] = c]
    ELSE c

\* str.lower()
Lower(s) == [i \in 1..Len(s) |-> LowerChar(s[i])]

\* last index of character c in s, 0 if absent (str.rfind, 1-based)
RFind(s, c) ==
    IF \E i \in 1..Len(s) : s[i] = c
    THEN CHOOSE i \in 1..Len(s) : s[i] = c /\ \A j \in (i + 1)..Len(s) : s[j] # c
    ELSE 0

-----------------------------------------------------------------------------
(* safe_path: os.path.normpath (posixpath), backslash replacement, the     *)
(* traversal test and the join with FTP_BASE                               *)

Dot == <<".">>
DotDot == <<".", ".">>

\* posixpath.normpath: POSIX allows one or two initial slashes, three or more are one
InitialSlashes(path) ==
    IF ~StartsWith(path, <<"/">>) THEN 0
    ELSE IF StartsWith(path, <<"/", "/">>) /\ ~StartsWith(path, <<"/", "/", "/">>) THEN 2
    ELSE 1

RECURSIVE Collapse(_, _, _, _)
\* the loop of posixpath.normpath over the components
Collapse(comps, i, new_comps, initial_slashes) ==
    IF i > Len(comps) THEN new_comps
    ELSE LET comp == comps[i] IN
         IF comp = <<>> \/ comp = Dot
         THEN Collapse(comps, i + 1, new_comps, initial_slashes)
         ELSE IF \/ comp # DotDot
                 \/ (initial_slashes = 0 /\ new_comps = <<>>)
                 \/ (new_comps # <<>> /\ new_comps[Len(new_comps)] = DotDot)
         THEN Collapse(comps, i + 1, Append(new_comps, comp), initial_slashes)
         ELSE IF new_comps # <<>>
         THEN Collapse(comps, i + 1, SubSeq(new_comps, 1, Len(new_comps) - 1), initial_slashes)
         ELSE Collapse(comps, i + 1, new_comps, initial_slashes)

\* a normpath that keeps ".." components instead of resolving them
normpath_keep_dotdot(path) ==
    IF path = <<>> THEN Dot
    ELSE LET kept == SelectSeq(Split(path, "/"), LAMBDA c : c # <<>> /\ c # Dot)
             joined == [i \in 1..InitialSlashes(path) |-> "/"] \o Join(kept, "/")
         IN IF joined = <<>> THEN Dot ELSE joined

normpath(path) ==
    IF path = <<>> THEN Dot
    ELSE LET initial_slashes == InitialSlashes(path)
             comps == Collapse(Split(path, "/"), 1, <<>>, initial_slashes)
             joined == [i \in 1..initial_slashes |-> "/"] \o Join(comps, "/")
         IN IF joined = <<>> THEN Dot ELSE joined

\* line 108
Normalized(path) == Replace(normpath(path), "\\", "/")

\* line 109
IsTraversal(normalized) ==
    StartsWith(normalized, DotDot) \/ Contains(normalized, <<"/", ".", ".", "/">>)

\* line 111
JoinBase(base, normalized) == rstrip(base, "/") \o <<"/">> \o lstrip(normalized, "/")

\* a sanitizer without the traversal test
safe_path_unchecked(base, path) == [raised |-> FALSE, value |-> JoinBase(base, Normalized(path))]

\* safe_path: raises HTTPException(400, "Invalid path") or returns the remote path
safe_path(base, path) ==
    LET normalized == Normalized(path) IN
    IF IsTraversal(normalized)
    THEN [raised |-> TRUE, value |-> None]
    ELSE [raised |-> FALSE, value |-> JoinBase(base, normalized)]

-----------------------------------------------------------------------------
(* is_text_file: os.path.splitext and TEXT_EXTENSIONS *)

TEXT_EXTENSIONS ==
    { <<".","h","t","m","l">>, <<".","h","t","m">>, <<".","c","s","s">>, <<".","j","s">>,
      <<".","j","s","o","n">>, <<".","x","m","l">>, <<".","t","x","t">>, <<".","c","s","v">>,
      <<".","s","v","g">>, <<".","m","d">>, <<".","p","h","p">> }

\* os.path.splitext(path)[1]: from the last dot of the last component, unless that
\* component has only leading dots before it
splitext_ext(path) ==
    LET sepIndex == RFind(path, "/")
        dotIndex == RFind(path, ".")
    IN IF dotIndex > sepIndex /\ \E k \in (sepIndex + 1)..(dotIndex - 1) : path[k] # "."
       THEN SubSeq(path, dotIndex, Len(path))
       ELSE <<>>

is_text_file(path) == Lower(splitext_ext(path)) \in TEXT_EXTENSIONS

-----------------------------------------------------------------------------
(* Encoding names *)

E_utf8      == <<"u","t","f","-","8">>
E_cp932     == <<"c","p","9","3","2">>
E_euc_jp    == <<"e","u","c","_","j","p">>
E_shift_jis == <<"s","h","i","f","t","_","j","i","s">>
E_shift_jis_hyphen == <<"s","h","i","f","t","-","j","i","s">>
E_shiftjis  == <<"s","h","i","f","t","j","i","s">>
E_sjis      == <<"s","j","i","s">>
E_euc_jp_hyphen == <<"e","u","c","-","j","p">>
E_eucjp     == <<"e","u","c","j","p">>
E_ascii     == <<"a","s","c","i","i">>
E_undefined == <<"u","n","d","e","f","i","n","e","d">>
E_punycode  == <<"p","u","n","y","c","o","d","e">>
E_foo       == <<"f","o","o">>
E_binary    == <<"b","i","n","a","r","y">>

\* ENCODING_ALIASES, key -> value, as written in the source
ENCODING_ALIASES ==
    { <<E_shift_jis, E_cp932>>,
      <<E_shiftjis, E_cp932>>,
      <<E_sjis, E_cp932>>,
      <<E_euc_jp_hyphen, E_euc_jp>>,
      <<E_eucjp, E_euc_jp>> }

\* dict.get(key, default)
AliasGet(key, default) ==
    IF \E kv \in ENCODING_ALIASES : kv[1] = key
    THEN (CHOOSE kv \in ENCODING_ALIASES : kv[1] = key)[2]
    ELSE default

normalize_encoding(enc) == AliasGet(Replace(Lower(enc), "-", "_"), enc)

-----------------------------------------------------------------------------
(* The text codec layer behind str.encode / bytes.decode.                  *)
(* Characters: "a" (ASCII), "JA" (a kana), "EMOJI" (outside the Japanese   *)
(* code pages), "REPL" (U+FFFD). A byte string is a sequence of units, one *)
(* per encoded character: "a", "JA_sjis", "JA_euc", "JA_utf8",             *)
(* "EMOJI_utf8", and "xFF" (a byte valid in none of the codecs).           *)

Chars == {"a", "JA", "EMOJI"}
ByteUnits == {"a", "JA_sjis", "JA_euc", "JA_utf8", "EMOJI_utf8", "xFF"}

\* codec registry: the lookup is case-insensitive and reads "-" as "_"
CodecNames ==
    { <<<<"u","t","f","_","8">>, "utf_8">>, <<<<"u","t","f","8">>, "utf_8">>,
      <<E_ascii, "ascii">>,
      <<E_cp932, "cp932">>,
      <<E_shift_jis, "shift_jis">>, <<E_shiftjis, "shift_jis">>, <<E_sjis, "shift_jis">>,
      <<E_euc_jp, "euc_jp">>, <<E_eucjp, "euc_jp">>,
      <<E_punycode, "punycode">>,
      <<E_undefined, "undefined">> }

\* codecs.lookup: the codec, or "LookupError"
CodecLookup(name) ==
    LET key == Replace(Lower(name), "-", "_") IN
    IF \E kv \in CodecNames : kv[1] = key
    THEN (CHOOSE kv \in CodecNames : kv[1] = key)[2]
    ELSE "LookupError"

EncodeChar(codec, c) ==
    CASE codec = "undefined" -> "unencodable"
      [] c = "a" -> "a"
      [] c = "JA" /\ codec \in {"cp932", "shift_jis"} -> "JA_sjis"
      [] c = "JA" /\ codec = "euc_jp" -> "JA_euc"
      [] c = "JA" /\ codec = "utf_8" -> "JA_utf8"
      [] c = "EMOJI" /\ codec = "utf_8" -> "EMOJI_utf8"
      [] c \in {"JA", "EMOJI"} /\ codec = "punycode" -> "a"
      [] OTHER -> "unencodable"

\* str.encode(encoding, errors="strict"): bytes, or the exception class raised.
\* The "undefined" codec raises a plain UnicodeError on every call.
StrEncode(text, encoding) ==
    LET codec == CodecLookup(encoding) IN
    IF codec = "LookupError" THEN [raised |-> "LookupError", bytes |-> <<>>]
    ELSE IF codec = "undefined" THEN [raised |-> "UnicodeError", bytes |-> <<>>]
    ELSE IF \E i \in 1..Len(text) : EncodeChar(codec, text[i]) = "unencodable"
    THEN [raised |-> "UnicodeEncodeError", bytes |-> <<>>]
    ELSE [raised |-> "no", bytes |-> [i \in 1..Len(text) |-> EncodeChar(codec, text[i])]]

DecodeUnit(codec, b) ==
    CASE b = "a" -> "a"
      [] b = "JA_sjis" /\ codec \in {"cp932", "shift_jis"} -> "JA"
      [] b = "JA_euc" /\ codec = "euc_jp" -> "JA"
      [] b = "JA_utf8" /\ codec = "utf_8" -> "JA"
      [] b = "EMOJI_utf8" /\ codec = "utf_8" -> "EMOJI"
      [] OTHER -> "REPL"

\* bytes.decode(encoding, errors="replace"): text, or the exception class raised.
\* "punycode" raises UnicodeDecodeError on non-ASCII input whatever the error
\* policy; "undefined" raises a plain UnicodeError on every call.
BytesDecode(bytes, encoding) ==
    LET codec == CodecLookup(encoding) IN
    IF codec = "LookupError" THEN [raised |-> "LookupError", text |-> <<>>]
    ELSE IF codec = "undefined" THEN [raised |-> "UnicodeError", text |-> <<>>]
    ELSE IF codec = "punycode" /\ \E i \in 1..Len(bytes) : bytes[i] # "a"
    THEN [raised |-> "UnicodeDecodeError", text |-> <<>>]
    ELSE [raised |-> "no", text |-> [i \in 1..Len(bytes) |-> DecodeUnit(codec, bytes[i])]]

-----------------------------------------------------------------------------
(* extract_meta_charset.                                                   *)
(* A downloaded byte string is described by its layout:                    *)
(*   pad      number of filler bytes before the first tag                  *)
(*   meta     NAME of a tag  <meta charset="NAME">  or None                *)
(*   content  NAME of a following attribute                                *)
(*            <x content="t; charset=NAME">  outside any meta tag, or None *)
(*   det      the label chardet.detect gives for these bytes, or None      *)
(*   body     the byte units after the tags                                *)

HeadLimit == 4096

MetaPrefix == <<"<","m","e","t","a"," ","c","h","a","r","s","e","t","=","\"">>
ContentPrefix == <<"<","x"," ","c","o","n","t","e","n","t","=","\"","t",";"," ",
                   "c","h","a","r","s","e","t","=">>
TagSuffix == <<"\"", ">">>

Min(a, b) == IF a <= b THEN a ELSE b

\* the part of a name starting at 0-based offset off that lies in raw[:4096]
InHead(name, off) ==
    IF off >= HeadLimit THEN <<>> ELSE SubSeq(name, 1, Min(Len(name), HeadLimit - off))

MetaNameOffset(raw) == raw.pad + Len(MetaPrefix)

ContentNameOffset(raw) ==
    raw.pad + Len(ContentPrefix)
    + (IF raw.meta = None THEN 0 ELSE Len(MetaPrefix) + Len(raw.meta) + Len(TagSuffix))

\* first pattern, then second pattern, on the first 4096 bytes; the match is
\* lower-cased; None when neither pattern matches
extract_meta_charset(raw) ==
    LET m1 == IF raw.meta = None THEN <<>> ELSE InHead(raw.meta, MetaNameOffset(raw))
        m2 == IF raw.content = None THEN <<>> ELSE InHead(raw.content, ContentNameOffset(raw))
    IN IF m1 # <<>> THEN Lower(m1)
       ELSE IF m2 # <<>> THEN Lower(m2)
       ELSE None

\* chardet.detect(raw_bytes).get("encoding") or "utf-8"     (lines 215-216)
ChardetEncoding(raw) == IF raw.det = None \/ raw.det = <<>> THEN E_utf8 ELSE raw.det

\* a resolver that prefers the statistical guess to the declaration
ResolveEncoding_detector_first(raw) ==
    IF raw.det # None /\ raw.det # <<>> THEN normalize_encoding(raw.det)
    ELSE IF extract_meta_charset(raw) # None THEN normalize_encoding(extract_meta_charset(raw))
    ELSE normalize_encoding(E_utf8)

\* normalize_encoding(meta_charset or chardet_encoding)       (line 219)
ResolveEncoding(raw) ==
    LET meta_charset == extract_meta_charset(raw) IN
    normalize_encoding(IF meta_charset # None /\ meta_charset # <<>>
                       THEN meta_charset ELSE ChardetEncoding(raw))

Response(status, kind, content, detectedEncoding) ==
    [status |-> status, kind |-> kind, content |-> content, detectedEncoding |-> detectedEncoding]

\* lines 208-238 of ftp_read: what the handler returns once raw_bytes is complete.
\* The tags and the padding are ASCII and decode to themselves; content holds the
\* decoded body. An exception other than UnicodeDecodeError / LookupError leaves
\* the handler and becomes the framework's 500 response.
ReadResponse(path, raw) ==
    IF is_text_file(path)
    THEN LET encoding == ResolveEncoding(raw)
             first == BytesDecode(raw.body, encoding)
         IN IF first.raised = "no"
            THEN Response(200, "ok", first.text, encoding)
            ELSE IF first.raised \in {"UnicodeDecodeError", "LookupError"}
            THEN Response(200, "ok", BytesDecode(raw.body, E_utf8).text, E_utf8)
            ELSE Response(500, "InternalServerError", None, None)
    ELSE Response(200, "ok", [base64 |-> raw], E_binary)

-----------------------------------------------------------------------------
(* Inputs *)

RECURSIVE SeqsUpTo(_, _)
\* all sequences over S of length at most n
SeqsUpTo(S, n) ==
    IF n = 0 THEN {<<>>}
    ELSE LET shorter == SeqsUpTo(S, n - 1)
         IN shorter \cup {Append(s, x) : s \in {t \in shorter : Len(t) = n - 1}, x \in S}

Upper(s) == [i \in 1..Len(s) |-> UpperChar(s[i])]

\* s with the letters at the positions in P in upper case
UpperAt(s, P) == [i \in 1..Len(s) |-> IF i \in P THEN UpperChar(s[i]) ELSE s[i]]

CaseVariants(s) ==
    {UpperAt(s, P) : P \in {Q \in SUBSET (1..Len(s)) : Cardinality(Q) <= MaxUpper}}
    \cup {Upper(s)}

PathChars == {"/", "\\", ".", "a"}

P_etc_passwd == <<"/",".",".","/",".",".","/","e","t","c","/","p","a","s","s","w","d">>
P_rel_etc_passwd == Tail(P_etc_passwd)
P_a == <<"a">>
P_a_txt == <<"a",".","t","x","t">>
P_a_png == <<"a",".","p","n","g">>
P_backslash_dotdot == <<"\\", ".", ".">>
P_dir == <<"/","i","m","g">>
F_logo_png == <<"l","o","g","o",".","p","n","g">>
F_dotdot_png == <<".",".","\\","x",".","p","n","g">>

SanitizerPaths == SeqsUpTo(PathChars, MaxPathLen) \cup {P_etc_passwd, P_rel_etc_passwd, P_a_txt}

Roots == {<<"/">>, <<"/","w">>, <<"/","w","/">>}

AliasSpellings ==
    {E_shift_jis, E_shift_jis_hyphen, E_shiftjis, E_sjis, E_euc_jp_hyphen, E_euc_jp, E_eucjp}
OtherNames == {E_utf8, E_cp932, E_ascii, E_foo}
EncodingNames == UNION {CaseVariants(s) : s \in AliasSpellings \cup OtherNames}

D_euc_tw == <<"E","U","C","-","T","W">>
DeclaredNames == {Upper(E_shift_jis), E_shift_jis, E_euc_jp_hyphen, E_utf8, E_foo, E_undefined, E_punycode}
DetectorLabels == {Upper(E_shift_jis), Upper(E_euc_jp_hyphen), E_ascii, E_utf8, D_euc_tw}
\* the tag at the start, cut after three letters of the name by the 4096 limit, cut
\* before the name, and wholly beyond the limit
Pads == {0, HeadLimit - Len(MetaPrefix) - 3, HeadLimit - Len(MetaPrefix), HeadLimit}

RawPayloads ==
    [pad : Pads, meta : DeclaredNames \cup {None}, content : {Upper(E_euc_jp_hyphen), None},
     det : DetectorLabels \cup {None}, body : SeqsUpTo(ByteUnits, MaxTextLen)]

-----------------------------------------------------------------------------
(* Helper calls on drawn inputs *)

Requests == 1..NumRequests

NoRequest == [op |-> "none", path |-> None, filename |-> None, content |-> None, encoding |-> None]
NoRaw == [pad |-> 0, meta |-> None, content |-> None, det |-> None, body |-> None]
NoResponse == Response(0, "pending", None, None)

Idle ==
    /\ req = [r \in Requests |-> NoRequest]
    /\ pc = [r \in Requests |-> "absent"]
    /\ ftp_path = [r \in Requests |-> None]
    /\ payload = [r \in Requests |-> <<>>]
    /\ client = [r \in Requests |-> 0]
    /\ sessions = <<>>
    /\ exc = [r \in Requests |-> "none"]
    /\ buf = [r \in Requests |-> NoRaw]
    /\ sent = [r \in Requests |-> <<>>]
    /\ steps = [r \in Requests |-> <<>>]
    /\ result = [r \in Requests |-> NoResponse]

bridgeVars == <<req, pc, ftp_path, payload, client, sessions, exc, buf, sent, steps, result>>

NoCall == [fn |-> "none", arg |-> None, done |-> TRUE, ret |-> None]

InitHelpers ==
    /\ Idle
    /\ \/ /\ FTP_BASE \in Roots
          /\ call \in [fn : {"safe_path"}, arg : SanitizerPaths, done : {FALSE}, ret : {None}]
       \/ /\ FTP_BASE = <<"/">>
          /\ call \in [fn : {"normalize_encoding"}, arg : EncodingNames, done : {FALSE}, ret : {None}]
       \/ /\ FTP_BASE = <<"/">>
          /\ call \in [fn : {"resolve_encoding"}, arg : RawPayloads, done : {FALSE}, ret : {None}]
       \/ /\ FTP_BASE = <<"/">>
          /\ call \in [fn : {"ftp_read"}, arg : {P_a_txt, P_a_png} \X RawPayloads, done : {FALSE}, ret : {None}]

CallSafePath ==
    /\ call.fn = "safe_path" /\ ~call.done
    /\ call' = [call EXCEPT !.done = TRUE, !.ret = safe_path(FTP_BASE, call.arg)]
    /\ UNCHANGED <<FTP_BASE, bridgeVars>>

CallNormalizeEncoding ==
    /\ call.fn = "normalize_encoding" /\ ~call.done
    /\ call' = [call EXCEPT !.done = TRUE, !.ret = normalize_encoding(call.arg)]
    /\ UNCHANGED <<FTP_BASE, bridgeVars>>

\* lines 214-219 of ftp_read, on the bytes of a text file
CallResolveEncoding ==
    /\ call.fn = "resolve_encoding" /\ ~call.done
    /\ call' = [call EXCEPT !.done = TRUE, !.ret = ResolveEncoding(call.arg)]
    /\ UNCHANGED <<FTP_BASE, bridgeVars>>

\* lines 208-238 of ftp_read
CallReadResponse ==
    /\ call.fn = "ftp_read" /\ ~call.done
    /\ call' = [call EXCEPT !.done = TRUE, !.ret = ReadResponse(call.arg[1], call.arg[2])]
    /\ UNCHANGED <<FTP_BASE, bridgeVars>>

NextHelpers ==
    CallSafePath \/ CallNormalizeEncoding \/ CallResolveEncoding \/ CallReadResponse

SpecHelpers == InitHelpers /\ [][NextHelpers]_vars

-----------------------------------------------------------------------------
(* The four FTP handlers.  A request is                                    *)
(*   [op, path, filename, content, encoding]                               *)
(* with op one of "list", "read", "write", "upload"; content is text for a *)
(* write and bytes for an upload; encoding None is the absent field.       *)

Request(op, path, filename, content, encoding) ==
    [op |-> op, path |-> path, filename |-> filename, content |-> content, encoding |-> encoding]

\* the argument each handler gives to safe_path (lines 170, 199, 252, 277)
PathArgument(q) == IF q.op = "upload" THEN q.path \o <<"/">> \o q.filename ELSE q.path

\* req.encoding or "utf-8", canonicalized                       (line 253)
WriteEncoding(q) ==
    normalize_encoding(IF q.encoding = None \/ q.encoding = <<>> THEN E_utf8 ELSE q.encoding)

\* req.content.encode(encoding, errors="strict")                (line 256)
EncodeContent(q) == StrEncode(q.content, WriteEncoding(q))

\* one client object kept at module level and used by every request
SharedClient(all) == 1

\* client = aioftp.Client(): a new object on every call of ftp_connection (line 157)
NewClient(all) == Len(all) + 1

Session(owner, state) == [owner |-> owner, state |-> state]

\* the call each handler makes on its open session
StreamCall(op) ==
    CASE op = "list" -> "list"
      [] op = "read" -> "download"
      [] OTHER -> "upload"

\* the 502 every handler raises from its except clause (lines 188, 207, 269, 285)
TransferError == Response(502, "TransferError", None, None)

\* what the handler returns after its session block ended without an exception
Success(q, raw, listing) ==
    CASE q.op = "list" -> Response(200, "ok", listing, None)
      [] q.op = "read" -> ReadResponse(q.path, raw)
      [] q.op = "write" -> Response(200, "ok", <<"s","t","a","t","u","s","o","k">>, None)
      [] OTHER -> Response(200, "ok", q.path \o <<"/">> \o q.filename, None)

\* remote directory listings: names of the children; an empty name is skipped
N_empty == <<>>
Listings == {<<>>, <<P_a_txt>>, <<N_empty, P_a_png>>}
Entries(names) == SelectSeq(names, LAMBDA n : n # N_empty)

\* what a download can deliver
Raw(pad, meta, content, det, body) ==
    [pad |-> pad, meta |-> meta, content |-> content, det |-> det, body |-> body]
RemoteFiles ==
    { Raw(0, Upper(E_shift_jis), None, E_ascii, <<"JA_sjis">>),
      Raw(0, None, None, None, <<"xFF">>) }

\* safe_path is the first statement of every handler
Sanitize(r) ==
    /\ pc[r] = "start"
    /\ LET sp == safe_path(FTP_BASE, PathArgument(req[r])) IN
       IF sp.raised
       THEN /\ result' = [result EXCEPT ![r] = Response(400, "InvalidPath", None, None)]
            /\ pc' = [pc EXCEPT ![r] = "done"]
            /\ UNCHANGED ftp_path
       ELSE /\ ftp_path' = [ftp_path EXCEPT ![r] = sp.value]
            /\ pc' = [pc EXCEPT ![r] =
                        CASE req[r].op = "write" -> "encode"
                          [] req[r].op = "upload" -> "file_read"
                          [] OTHER -> "connect"]
            /\ UNCHANGED result
    /\ UNCHANGED <<FTP_BASE, req, payload, client, sessions, exc, buf, sent, steps, call>>

\* ftp_write, lines 253-262
Encode(r) ==
    /\ pc[r] = "encode"
    /\ LET e == EncodeContent(req[r]) IN
       IF e.raised = "no"
       THEN /\ payload' = [payload EXCEPT ![r] = e.bytes]
            /\ pc' = [pc EXCEPT ![r] = "connect"]
            /\ UNCHANGED result
       ELSE /\ result' = [result EXCEPT ![r] =
                            IF e.raised \in {"UnicodeEncodeError", "LookupError"}
                            THEN Response(400, "EncodeError", None, WriteEncoding(req[r]))
                            ELSE Response(500, "InternalServerError", None, None)]
            /\ pc' = [pc EXCEPT ![r] = "done"]
            /\ UNCHANGED payload
    /\ UNCHANGED <<FTP_BASE, req, ftp_path, client, sessions, exc, buf, sent, steps, call>>

\* ftp_upload_image, line 278: content = await file.read()
FileRead(r) ==
    /\ pc[r] = "file_read"
    /\ payload' = [payload EXCEPT ![r] = req[r].content]
    /\ pc' = [pc EXCEPT ![r] = "connect"]
    /\ UNCHANGED <<FTP_BASE, req, ftp_path, client, sessions, exc, buf, sent, steps, result, call>>

\* ftp_connection, lines 157-158; a fault is caught by the handler's except clause
Connect(r) ==
    /\ pc[r] = "connect"
    /\ LET c == NewClient(sessions) IN
       /\ client' = [client EXCEPT ![r] = c]
       /\ steps' = [steps EXCEPT ![r] = Append(@, "connect")]
       /\ \/ /\ sessions' = (c :> Session(r, "connected")) @@ sessions
             /\ pc' = [pc EXCEPT ![r] = "login"]
             /\ UNCHANGED <<exc, result>>
          \/ /\ sessions' = (c :> Session(r, "unconnected")) @@ sessions
             /\ exc' = [exc EXCEPT ![r] = "connect"]
             /\ result' = [result EXCEPT ![r] = TransferError]
             /\ pc' = [pc EXCEPT ![r] = "done"]
    /\ UNCHANGED <<FTP_BASE, req, ftp_path, payload, buf, sent, call>>

\* ftp_connection, line 159: login is awaited before the try block is entered, so
\* a fault leaves the context manager without reaching its finally clause
Login(r) ==
    /\ pc[r] = "login"
    /\ steps' = [steps EXCEPT ![r] = Append(@, "login")]
    /\ \/ /\ sessions' = [sessions EXCEPT ![client[r]].state = "authenticated"]
          /\ pc' = [pc EXCEPT ![r] = "stream"]
          /\ UNCHANGED <<exc, result>>
       \/ /\ exc' = [exc EXCEPT ![r] = "login"]
          /\ result' = [result EXCEPT ![r] = TransferError]
          /\ pc' = [pc EXCEPT ![r] = "done"]
          /\ UNCHANGED sessions
    /\ UNCHANGED <<FTP_BASE, req, ftp_path, payload, client, buf, sent, call>>

\* the body of the async with block: client.list, download_stream or upload_stream.
\* A fault during an upload leaves a prefix of the bytes at the remote path.
Stream(r) ==
    /\ pc[r] = "stream"
    /\ steps' = [steps EXCEPT ![r] = Append(@, StreamCall(req[r].op))]
    /\ pc' = [pc EXCEPT ![r] = "quit"]
    /\ \/ /\ req[r].op = "list"
          /\ \E names \in Listings : buf' = [buf EXCEPT ![r] = Entries(names)]
          /\ UNCHANGED <<sent, exc>>
       \/ /\ req[r].op = "read"
          /\ \E raw \in RemoteFiles : buf' = [buf EXCEPT ![r] = raw]
          /\ UNCHANGED <<sent, exc>>
       \/ /\ req[r].op \in {"write", "upload"}
          /\ sent' = [sent EXCEPT ![r] = payload[r]]
          /\ UNCHANGED <<buf, exc>>
       \/ /\ exc' = [exc EXCEPT ![r] = "stream"]
          /\ \E n \in 0..Len(payload[r]) :
                sent' = [sent EXCEPT ![r] =
                           IF req[r].op \in {"write", "upload"} THEN SubSeq(payload[r], 1, n)
                           ELSE <<>>]
          /\ UNCHANGED buf
    /\ UNCHANGED <<FTP_BASE, req, ftp_path, payload, client, sessions, result, call>>

\* the finally clause (line 163), then the except clause or the rest of the handler
Quit(r) ==
    /\ pc[r] = "quit"
    /\ steps' = [steps EXCEPT ![r] = Append(@, "quit")]
    /\ sessions' = [sessions EXCEPT ![client[r]].state = "closed"]
    /\ pc' = [pc EXCEPT ![r] = "done"]
    /\ \/ /\ exc[r] = "none"
          /\ result' = [result EXCEPT ![r] = Success(req[r], buf[r], buf[r])]
          /\ UNCHANGED exc
       \/ /\ exc[r] # "none"
          /\ result' = [result EXCEPT ![r] = TransferError]
          /\ UNCHANGED exc
       \/ /\ exc' = [exc EXCEPT ![r] = "quit"]
          /\ result' = [result EXCEPT ![r] = TransferError]
    /\ UNCHANGED <<FTP_BASE, req, ftp_path, payload, client, buf, sent, call>>

Next ==
    \E r \in Requests :
        \/ Sanitize(r)
        \/ Encode(r)
        \/ FileRead(r)
        \/ Connect(r)
        \/ Login(r)
        \/ Stream(r)
        \/ Quit(r)

-----------------------------------------------------------------------------
(* Requests *)

BridgePaths == {P_a, P_a_txt, P_a_png, P_etc_passwd, P_rel_etc_passwd, P_backslash_dotdot}
WriteEncodings == {None, Upper(E_shift_jis), E_euc_jp_hyphen, E_ascii, E_foo, E_undefined}
Texts == SeqsUpTo(Chars, MaxTextLen)
Filenames == {F_logo_png, F_dotdot_png, P_backslash_dotdot}

AllRequests ==
    {Request(op, p, None, None, None) : op \in {"list", "read"}, p \in BridgePaths}
    \cup {Request("write", p, None, t, e) : p \in BridgePaths, t \in Texts, e \in WriteEncodings}
    \cup {Request("upload", d, f, b, None) :
            d \in {P_dir, DotDot}, f \in Filenames, b \in SeqsUpTo({"a", "xFF"}, MaxTextLen)}

\* one request of each kind of outcome, for the runs with several requests at once
FewRequests ==
    { Request("list", <<"/">>, None, None, None),
      Request("read", P_a_txt, None, None, None),
      Request("read", P_rel_etc_passwd, None, None, None),
      Request("write", P_a_txt, None, <<"JA">>, Upper(E_shift_jis)),
      Request("write", P_a_txt, None, <<"JA">>, E_ascii),
      Request("upload", P_dir, F_logo_png, <<"xFF">>, None) }

Started(q) ==
    /\ req = q
    /\ pc = [r \in Requests |-> IF q[r] = NoRequest THEN "absent" ELSE "start"]
    /\ ftp_path = [r \in Requests |-> None]
    /\ payload = [r \in Requests |-> <<>>]
    /\ client = [r \in Requests |-> 0]
    /\ sessions = <<>>
    /\ exc = [r \in Requests |-> "none"]
    /\ buf = [r \in Requests |-> NoRaw]
    /\ sent = [r \in Requests |-> <<>>]
    /\ steps = [r \in Requests |-> <<>>]
    /\ result = [r \in Requests |-> NoResponse]
    /\ call = NoCall

\* one request at a time, every kind of argument
Init ==
    /\ FTP_BASE \in Roots
    /\ \E q \in AllRequests : Started([r \in Requests |-> IF r = 1 THEN q ELSE NoRequest])

Spec == Init /\ [][Next]_vars

\* several requests in flight at once
InitConcurrent ==
    /\ FTP_BASE = <<"/","w">>
    /\ \E q \in [Requests -> FewRequests] : Started(q)

SpecConcurrent == InitConcurrent /\ [][Next]_vars

-----------------------------------------------------------------------------
(* Properties *)

Count(seq, x) == Cardinality({i \in 1..Len(seq) : seq[i] = x})

Active == {r \in Requests : pc[r] # "absent"}

\* a ".." component between slashes
HasDotDotSegment(path) == \E i \in 1..Len(Split(path, "/")) : Split(path, "/")[i] = DotDot

\* the request's path argument is a traversal that the sanitizer has to refuse
RefusedPath(q) == IsTraversal(Normalized(PathArgument(q)))

\* C1: whenever a handler has returned and its connect had succeeded, its session
\* has been closed by quit, whatever the exit path (success, login fault,
\* streaming fault, logical failure).
C1_SessionClosedOnReturn ==
    \A r \in Active :
        (pc[r] = "done" /\ client[r] # 0 /\ sessions[client[r]].state # "unconnected")
            => sessions[client[r]].state = "closed"

\* C2: every remote path a handler hands to list, download_stream or
\* upload_stream starts with the configured root and has no ".." segment.
C2_RemotePathsInsideRoot ==
    \A r \in Active :
        Count(steps[r], StreamCall(req[r].op)) > 0
            => /\ StartsWith(ftp_path[r], FTP_BASE)
               /\ ~HasDotDotSegment(ftp_path[r])

\* C3 as stated: a read of "/../../etc/passwd" opens no session and ends with
\* InvalidPath (400).
C3_EtcPasswdRejected ==
    \A r \in Active :
        (req[r].op = "read" /\ req[r].path = P_etc_passwd)
            => /\ client[r] = 0
               /\ pc[r] = "done" => result[r] = Response(400, "InvalidPath", None, None)

P_etc_normal == <<"/","e","t","c","/","p","a","s","s","w","d">>

\* C3 amended: a read of "/../../etc/passwd" is never refused; normalization turns
\* it into "/etc/passwd" and the only remote path it addresses is the root joined
\* with "etc/passwd".  A read of the relative "../../etc/passwd" is refused with
\* InvalidPath (400) and no session is opened for it.
C3_EtcPasswdServedInsideRoot ==
    \A r \in Active :
        /\ (req[r].op = "read" /\ req[r].path = P_etc_passwd /\ pc[r] # "start")
              => /\ ftp_path[r] = rstrip(FTP_BASE, "/") \o P_etc_normal
                 /\ result[r].kind # "InvalidPath"
        /\ (req[r].op = "read" /\ req[r].path = P_rel_etc_passwd)
              => /\ client[r] = 0 /\ steps[r] = <<>>
                 /\ pc[r] = "done" => result[r] = Response(400, "InvalidPath", None, None)

C3_Witness ==
    \E r \in Active :
        /\ req[r].op = "read" /\ req[r].path = P_etc_passwd
        /\ Count(steps[r], "download") = 1
        /\ ftp_path[r] = rstrip(FTP_BASE, "/") \o P_etc_normal
        /\ pc[r] = "done" /\ result[r].status = 200

\* C4: safe_path raises exactly for the paths whose normalized form has a ".."
\* segment, and otherwise returns the normalized path prefixed by the root once.
C4_RejectsExactlyDotDotSegments ==
    (call.fn = "safe_path" /\ call.done)
        => /\ call.ret.raised <=> HasDotDotSegment(Normalized(call.arg))
           /\ ~call.ret.raised =>
                 call.ret.value = rstrip(FTP_BASE, "/") \o <<"/">> \o lstrip(Normalized(call.arg), "/")

\* C5: when the path argument is a traversal, the handler makes no remote-session
\* call at all (no connect, login, list, download, upload), sends nothing, and
\* ends with InvalidPath (400).
C5_SanitizeFirst ==
    \A r \in Active :
        RefusedPath(req[r])
            => /\ steps[r] = <<>> /\ client[r] = 0 /\ sent[r] = <<>> /\ payload[r] = <<>>
               /\ pc[r] \in {"start", "done"}
               /\ pc[r] = "done" => result[r] = Response(400, "InvalidPath", None, None)

C5_Witness ==
    \E r \in Active :
        /\ RefusedPath(req[r]) /\ req[r].op = "upload"
        /\ pc[r] = "done" /\ result[r].kind = "InvalidPath" /\ steps[r] = <<>>

\* some character of the text has no representation in the codec the name selects
HasUnrepresentable(text, encoding) ==
    /\ CodecLookup(encoding) # "LookupError"
    /\ \E i \in 1..Len(text) : EncodeChar(CodecLookup(encoding), text[i]) = "unencodable"

\* C6: a write (with an acceptable path) whose content has a character that the
\* canonicalized target encoding cannot represent opens no session, sends no
\* bytes and ends with EncodeError (400).
C6_UnencodableWriteIsEncodeError ==
    \A r \in Active :
        (/\ req[r].op = "write"
         /\ ~RefusedPath(req[r])
         /\ HasUnrepresentable(req[r].content, WriteEncoding(req[r])))
            => /\ client[r] = 0 /\ steps[r] = <<>> /\ sent[r] = <<>>
               /\ pc[r] = "done" => (result[r].status = 400 /\ result[r].kind = "EncodeError")

\* C7: a request connects at most once, and exactly once when its path was
\* accepted and (for a write) its content encoded; no remote-session call is made
\* twice; after a connect, login, streaming or quit fault the handler returns the
\* single 502 TransferError; and the session a request uses is its own, shared
\* with no other request.
C7_OneSessionPerRequest ==
    \A r \in Active :
        /\ \A s \in {"connect", "login", "list", "download", "upload", "quit"} :
              Count(steps[r], s) <= 1
        /\ (pc[r] = "done" /\ ~RefusedPath(req[r])
              /\ (req[r].op = "write" => EncodeContent(req[r]).raised = "no"))
              => Count(steps[r], "connect") = 1
        /\ (pc[r] = "done" /\ exc[r] # "none") => result[r] = TransferError
        /\ exc[r] \in {"connect", "login"} => pc[r] = "done"
        /\ client[r] # 0
              => /\ sessions[client[r]].owner = r
                 /\ \A r2 \in Active \ {r} : client[r2] # client[r]

C7_Witness ==
    \E r1, r2 \in Active :
        /\ r1 # r2
        /\ pc[r1] = "stream" /\ sessions[client[r1]].state = "authenticated"
        /\ pc[r2] = "done" /\ exc[r2] = "stream" /\ Count(steps[r2], "connect") = 1
        /\ client[r1] # client[r2]

ShiftJisSpellings == {E_shift_jis, E_shift_jis_hyphen, E_shiftjis, E_sjis}
EucJpSpellings == {E_euc_jp_hyphen, E_eucjp}

\* C8: every Shift-JIS spelling, in any letter case, canonicalizes to cp932, every
\* EUC-JP spelling to euc_jp, and any other name is returned unchanged.
C8_AliasesCanonicalized ==
    (call.fn = "normalize_encoding" /\ call.done)
        => call.ret = (IF Lower(call.arg) \in ShiftJisSpellings THEN E_cp932
                       ELSE IF Lower(call.arg) \in EucJpSpellings THEN E_euc_jp
                       ELSE call.arg)

\* the declared name lies wholly inside the first 4096 bytes
MetaInHead(raw) == raw.meta # None /\ MetaNameOffset(raw) + Len(raw.meta) <= HeadLimit
ContentInHead(raw) == raw.content # None /\ ContentNameOffset(raw) + Len(raw.content) <= HeadLimit
\* no byte of a declared name lies inside the first 4096 bytes
NothingInHead(raw) ==
    /\ raw.meta = None \/ MetaNameOffset(raw) >= HeadLimit
    /\ raw.content = None \/ ContentNameOffset(raw) >= HeadLimit

\* C9: for a text file the resolved encoding is the alias-table form of the
\* embedded declaration when one is found in the first 4096 bytes, whatever the
\* detector says; otherwise the alias-table form of the detector's label;
\* otherwise utf-8.
C9_DeclarationBeatsDetector ==
    (call.fn = "resolve_encoding" /\ call.done)
        => LET raw == call.arg IN
           /\ MetaInHead(raw) => call.ret = normalize_encoding(Lower(raw.meta))
           /\ (raw.meta = None /\ ContentInHead(raw))
                 => call.ret = normalize_encoding(Lower(raw.content))
           /\ extract_meta_charset(raw) # None
                 => call.ret = normalize_encoding(extract_meta_charset(raw))
           /\ (NothingInHead(raw) /\ raw.det # None) => call.ret = normalize_encoding(raw.det)
           /\ (NothingInHead(raw) /\ raw.det = None) => call.ret = E_utf8

C9_Witness ==
    /\ call.fn = "resolve_encoding" /\ call.done
    /\ call.arg.meta = Upper(E_shift_jis) /\ MetaInHead(call.arg)
    /\ call.arg.det = E_ascii
    /\ call.ret = E_cp932

\* C10: once the bytes of a text file are in memory, ftp_read returns text and an
\* encoding label for every byte string and every declared or detected name, and
\* reports utf-8 when the codec layer does not know the resolved name.
C10_ReadNeverFails ==
    (call.fn = "ftp_read" /\ call.done /\ is_text_file(call.arg[1]))
        => /\ call.ret.status = 200 /\ call.ret.kind = "ok"
           /\ call.ret.detectedEncoding # None
           /\ CodecLookup(ResolveEncoding(call.arg[2])) = "LookupError"
                 => call.ret.detectedEncoding = E_utf8

=============================================================================
